---- MODULE Spec2Model ----
(***************************************************************************)
(* Wait-time predictor (src/wait_time_predictor.py) and appointment        *)
(* priority scoring (src/all_appointments.py) of the clinic system.        *)
(*                                                                         *)
(* The predictor is one WaitTimePredictor instance with its fields model,  *)
(* model_trained, feature_importance and the model file on disk.  train is *)
(* modelled statement by statement, so that a predict can be interleaved   *)
(* between any two of its statements; predict is modelled as its guard     *)
(* (line 143) followed by its evaluation (lines 146-151).                  *)
(*                                                                         *)
(* The regression pipeline is a library object.  A fitted pipeline is      *)
(* modelled by the function it computes on well-formed feature vectors;    *)
(* a forest's prediction is an average of training labels, so the function *)
(* takes values between the least and the greatest training label.         *)
(* Evaluating an unfitted pipeline, or a malformed feature vector, raises. *)
(***************************************************************************)
EXTENDS Integers, Sequences, FiniteSets, TLC

VARIABLES
    model,              \* self.model: a pipeline object, or None
    model_trained,      \* self.model_trained
    feature_importance, \* self.feature_importance: id of the pipeline it was read from, 0 = None
    disk,               \* the file models/wait_time_model.joblib
    nextId,             \* number of Pipeline objects constructed so far
    trainPc,            \* position of the train call in progress
    trainIn,            \* train's arguments: the label column and whether doctors_df is empty
    trainY,             \* train's locals: the labels y, then y_train
    trainOld,           \* the instance's (model, model_trained) when train was called
    predPc,             \* position of the predict call in progress
    predX,              \* predict's argument
    lastGood,           \* id of the pipeline of the latest train that returned True on this instance
    everModel,          \* a train returned True, or a load succeeded, on this instance
    last,               \* the latest completed call and what it returned
    row,                \* all_appointments: the row handed to calculate_priority
    priority,           \* all_appointments: what calculate_priority returned for it
    now,                \* the simulated clock: current_datetime
    appointments,       \* appointments_df: how many rows there are of each kind
    doctors,            \* doctors_df: the sequence of its rows
    result,             \* what the latest ScheduleOptimizer call returned
    previous            \* what the call before it returned

predictorVars == <<model, model_trained, feature_importance, disk, nextId, trainPc,
                   trainIn, trainY, trainOld, predPc, predX, lastGood, everModel, last>>
priorityVars == <<row, priority>>
clinicVars == <<now, appointments, doctors, result, previous>>
vars == <<predictorVars, priorityVars, clinicVars>>

----------------------------------------------------------------------------
(* Bounds *)

\* longest DataFrame handed to train or predict_batch
MaxRows == 2
\* Pipeline objects one run constructs (train calls that reach line 103)
MaxPipelines == 2

\* wait_time_minutes values of the data; NaN is a missing value
Labels == {-5, 20, 45}
NaN == CHOOSE v \in {999} : TRUE
LabelsOrNaN == Labels \cup {NaN}

\* feature vectors: a well-formed one and a malformed one
GoodFeatures == {"f1"}
Features == GoodFeatures \cup {"malformed"}

Dates == {1, 2}
Times == {1, 2}

----------------------------------------------------------------------------
(* Values *)

DefaultWait == 30

NoF == [x \in GoodFeatures |-> 0]
None == [id |-> 0, fitted |-> FALSE, f |-> NoF]
Unfitted(k) == [id |-> k, fitted |-> FALSE, f |-> NoF]
Fitted(k, g) == [id |-> k, fitted |-> TRUE, f |-> g]

NoFile == [state |-> "absent", pipeline |-> None]
\* `last` while a call is in progress, and once the caller has taken the result
Calling == [op |-> "call"]
Taken == [op |-> "none"]
NoInput == [y |-> <<>>, doctors_empty |-> FALSE]
NoOld == [model |-> None, model_trained |-> FALSE]
NoRow == [date_diff |-> 0, arrived_early |-> FALSE, wait_time_minutes |-> 0]
NoPriority == [category |-> "none", score |-> 0]

SeqsUpTo(S, n) == UNION {[1..k -> S] : k \in 0..n}

Min(S) == CHOOSE v \in S : \A w \in S : v <= w
Max(S) == CHOOSE v \in S : \A w \in S : v >= w
Max2(a, b) == IF a >= b THEN a ELSE b
Range(s) == {s[i] : i \in DOMAIN s}

\* the sequence s without its i-th element
Without(s, i) == [j \in 1..(Len(s) - 1) |-> IF j < i THEN s[j] ELSE s[j + 1]]


\* a DataFrame of appointments is the sequence of its rows
Row(d, t, x, w) ==
    [appointment_date |-> d, appointment_time |-> t, features |-> x, wait_time_minutes |-> w]

\* historical data handed to train: only the label column decides train's path
TrainRows == {Row(1, 1, "f1", w) : w \in LabelsOrNaN}
TrainFrames == SeqsUpTo(TrainRows, MaxRows)

\* current data handed to predict_batch
BatchRows == {Row(d, t, x, 20) : d \in Dates, t \in Times, x \in {"f1", "malformed"}}
BatchFrames == SeqsUpTo(BatchRows, MaxRows)

----------------------------------------------------------------------------
(* WaitTimePredictor.__init__ *)

\* joblib.load of the model file: the stored pipeline, or an exception
LoadRaises == disk.state = "corrupt"

NewInstance ==
    /\ trainPc = "idle" /\ predPc = "idle"
    /\ IF disk.state = "absent" \/ LoadRaises
          THEN /\ model' = None
               /\ model_trained' = FALSE
          ELSE /\ model' = disk.pipeline
               /\ model_trained' = TRUE
    /\ feature_importance' = 0
    /\ lastGood' = 0
    /\ everModel' = (disk.state = "ok")
    /\ last' = [op |-> "init"]
    /\ UNCHANGED <<disk, nextId, trainPc, trainIn, trainY, trainOld, predPc, predX>>

----------------------------------------------------------------------------
(* WaitTimePredictor.train *)

\* preprocess_data: the label column of the left merge, one label per appointment row
PreprocessY(df) == [i \in DOMAIN df |-> df[i].wait_time_minutes]

\* train ends: it returns a value, or raises
TrainEnds(ret, in, old) ==
    /\ trainPc' = "idle"
    /\ trainIn' = NoInput
    /\ trainY' = <<>>
    /\ trainOld' = NoOld
    /\ last' = [op |-> "train", y |-> in.y, doctors_empty |-> in.doctors_empty,
                ret |-> ret, old |-> old]

\* lines 77-84: the empty-input returns, then preprocess_data
TrainCall(df, doctors_empty) ==
    /\ trainPc = "idle"
    /\ nextId < MaxPipelines
    /\ LET in == [y |-> PreprocessY(df), doctors_empty |-> doctors_empty]
           old == [model |-> model, model_trained |-> model_trained]
       IN IF Len(df) = 0 \/ doctors_empty \/ Len(PreprocessY(df)) = 0
            THEN /\ TrainEnds("False", in, old)
            ELSE /\ trainPc' = "create"
                 /\ trainIn' = in
                 /\ trainY' = PreprocessY(df)
                 /\ trainOld' = old
                 /\ last' = Calling
    /\ UNCHANGED <<model, model_trained, feature_importance, disk, nextId,
                   predPc, predX, lastGood, everModel>>

\* line 103: self.model = Pipeline(...), not yet fitted
TrainCreate ==
    /\ trainPc = "create"
    /\ model' = Unfitted(nextId + 1)
    /\ nextId' = nextId + 1
    /\ trainPc' = "split"
    /\ UNCHANGED <<model_trained, feature_importance, disk, trainIn, trainY, trainOld,
                   predPc, predX, lastGood, everModel, last>>

\* train_test_split(test_size=0.2): the test set takes ceil(0.2 n) rows
TestSize(n) == (n + 4) \div 5
SplitRaises(y) == Len(y) - TestSize(Len(y)) = 0

\* line 109: the seeded shuffle picks the held-out row; an empty train set raises
TrainSplit ==
    /\ trainPc = "split"
    /\ IF SplitRaises(trainY)
          THEN TrainEnds("raised", trainIn, trainOld)
          ELSE /\ \E i \in DOMAIN trainY : trainY' = Without(trainY, i)
               /\ trainPc' = "fit"
               /\ UNCHANGED <<trainIn, trainOld, last>>
    /\ UNCHANGED <<model, model_trained, feature_importance, disk, nextId,
                   predPc, predX, lastGood, everModel>>

\* RandomForestRegressor.fit rejects a missing label
FitRaises(y) == NaN \in Range(y)
\* the functions a forest fitted on labels y can compute
FitResults(y) ==
    [GoodFeatures -> {v \in Labels : Min(Range(y)) <= v /\ v <= Max(Range(y))}]

\* line 112: self.model.fit(X_train, y_train) fits the stored pipeline in place
TrainFit ==
    /\ trainPc = "fit"
    /\ IF FitRaises(trainY)
          THEN /\ TrainEnds("raised", trainIn, trainOld)
               /\ UNCHANGED model
          ELSE /\ \E g \in FitResults(trainY) : model' = Fitted(model.id, g)
               /\ trainPc' = "importance"
               /\ UNCHANGED <<trainIn, trainY, trainOld, last>>
    /\ UNCHANGED <<model_trained, feature_importance, disk, nextId,
                   predPc, predX, lastGood, everModel>>

\* lines 115-120: self.feature_importance
TrainImportance ==
    /\ trainPc = "importance"
    /\ feature_importance' = model.id
    /\ trainPc' = "dump"
    /\ UNCHANGED <<model, model_trained, disk, nextId, trainIn, trainY,
                   trainOld, predPc, predX, lastGood, everModel, last>>

\* lines 123-124: os.makedirs and joblib.dump; either can raise (OSError), and a
\* dump that raises leaves the file as it was or partly written
TrainDump ==
    /\ trainPc = "dump"
    /\ \/ /\ disk' = [state |-> "ok", pipeline |-> model]
          /\ trainPc' = "flag"
          /\ UNCHANGED <<trainIn, trainY, trainOld, last>>
       \/ /\ disk' \in {disk, [state |-> "corrupt", pipeline |-> None]}
          /\ TrainEnds("raised", trainIn, trainOld)
    /\ UNCHANGED <<model, model_trained, feature_importance, nextId,
                   predPc, predX, lastGood, everModel>>

\* lines 126-127: self.model_trained = True; return True
TrainFlag ==
    /\ trainPc = "flag"
    /\ model_trained' = TRUE
    /\ lastGood' = model.id
    /\ everModel' = TRUE
    /\ TrainEnds("True", trainIn, trainOld)
    /\ UNCHANGED <<model, feature_importance, disk, nextId, predPc, predX>>

----------------------------------------------------------------------------
(* WaitTimePredictor.predict *)

\* self.model.predict(features): an unfitted pipeline raises NotFittedError, a
\* malformed feature vector raises in the column transformer
EvalRaises(m, x) == ~m.fitted \/ x \notin GoodFeatures

\* line 143: the instance has no usable model
NotTrained == ~model_trained \/ model = None

\* what a pipeline object looked like to the call that evaluated it
Observed(m) == IF m.fitted THEN "fitted" ELSE "unfitted"

\* predict without the clamp of line 148
PredictOutcomeNoClamp(m, x) ==
    IF EvalRaises(m, x)
      THEN [value |-> DefaultWait, raised |-> FALSE]
      ELSE [value |-> m.f[x], raised |-> FALSE]

\* predict without the except branch of lines 149-151
PredictOutcomeNoCatch(m, x) ==
    IF EvalRaises(m, x)
      THEN [value |-> 0, raised |-> TRUE]
      ELSE [value |-> Max2(0, m.f[x]), raised |-> FALSE]

\* lines 146-151: the evaluation, clamped at 0, and the except branch
PredictOutcome(m, x) ==
    IF EvalRaises(m, x)
      THEN [value |-> DefaultWait, raised |-> FALSE]
      ELSE [value |-> Max2(0, m.f[x]), raised |-> FALSE]

PredictReturns(x, out, m, seen, failed) ==
    /\ predPc' = "idle"
    /\ predX' = "f1"
    /\ last' = [op |-> "predict", x |-> x, value |-> out.value, raised |-> out.raised,
                by |-> m.id, observed |-> seen, eval_failed |-> failed,
                during_train |-> trainPc # "idle", old |-> trainOld,
                before |-> [model |-> model, model_trained |-> model_trained]]

\* lines 143-144: the default answer of an instance without a model
PredictCall(x) ==
    /\ predPc = "idle"
    /\ IF NotTrained
          THEN PredictReturns(x, [value |-> DefaultWait, raised |-> FALSE], None, "none", FALSE)
          ELSE /\ predPc' = "eval"
               /\ predX' = x
               /\ last' = Calling
    /\ UNCHANGED <<model, model_trained, feature_importance, disk, nextId, trainPc,
                   trainIn, trainY, trainOld, lastGood, everModel>>

\* lines 146-151: self.model is read again here
PredictEval ==
    /\ predPc = "eval"
    /\ PredictReturns(predX, PredictOutcome(model, predX), model, Observed(model),
                      EvalRaises(model, predX))
    /\ UNCHANGED <<model, model_trained, feature_importance, disk, nextId, trainPc,
                   trainIn, trainY, trainOld, lastGood, everModel>>

----------------------------------------------------------------------------
(* WaitTimePredictor.predict_batch *)

Annotate(r, v) == r @@ [predicted_wait_time |-> v]

\* the default branch without the copy of line 187: the column lands in the caller's frame
BatchDefaultNoCopy(df) ==
    [raised |-> FALSE,
     results |-> [i \in DOMAIN df |-> Annotate(df[i], DefaultWait)],
     input_after |-> [i \in DOMAIN df |-> Annotate(df[i], DefaultWait)]]

\* lines 187-189: a copy of the caller's frame with the default in every row
BatchDefault(df) ==
    [raised |-> FALSE,
     results |-> [i \in DOMAIN df |-> Annotate(df[i], DefaultWait)],
     input_after |-> df]

\* lines 195-198: today's rows at or after the current time
IsUpcoming(r, current_time) ==
    /\ r.appointment_date = current_time.date
    /\ r.appointment_time >= current_time.time
TodayAppointments(df, current_time) ==
    SelectSeq(df, LAMBDA r : IsUpcoming(r, current_time))

\* lines 200-220: the empty frame, or one evaluation of the stored pipeline over
\* all of today's rows (no except branch around it), clamped at 0 row by row
BatchPredict(m, df, current_time) ==
    LET today == TodayAppointments(df, current_time)
    IN IF Len(today) = 0
         THEN [raised |-> FALSE, results |-> <<>>, input_after |-> df]
         ELSE IF \E i \in DOMAIN today : EvalRaises(m, today[i].features)
           THEN [raised |-> TRUE, results |-> <<>>, input_after |-> df]
           ELSE [raised |-> FALSE,
                 results |-> [i \in DOMAIN today |->
                                Annotate(today[i], Max2(0, m.f[today[i].features]))],
                 input_after |-> df]

PredictBatch(current_time, df) ==
    /\ trainPc = "idle" /\ predPc = "idle"
    /\ LET out == IF NotTrained THEN BatchDefault(df)
                                ELSE BatchPredict(model, df, current_time)
       IN last' = [op |-> "predict_batch", current_time |-> current_time, input |-> df,
                   input_after |-> out.input_after, raised |-> out.raised,
                   results |-> out.results, trained |-> ~NotTrained,
                   fitted |-> model.fitted, by |-> model.id]
    /\ UNCHANGED <<model, model_trained, feature_importance, disk, nextId, trainPc,
                   trainIn, trainY, trainOld, predPc, predX, lastGood, everModel>>

----------------------------------------------------------------------------
(* all_appointments.calculate_priority *)

\* the date-proximity score with the first two ranges cut one day short
DateScoreOffByOne(date_diff) ==
    IF date_diff = 0 THEN 100
    ELSE IF 0 < date_diff /\ date_diff < 3 THEN 80
    ELSE IF 3 <= date_diff /\ date_diff <= 7 THEN 60
    ELSE IF 7 < date_diff /\ date_diff <= 14 THEN 40
    ELSE IF date_diff < 0 THEN 20
    ELSE 30

\* the date-proximity score with the far future scored above the second week
DateScoreFarFirst(date_diff) ==
    IF date_diff = 0 THEN 100
    ELSE IF 0 < date_diff /\ date_diff <= 3 THEN 80
    ELSE IF 3 < date_diff /\ date_diff <= 7 THEN 60
    ELSE IF 7 < date_diff /\ date_diff <= 14 THEN 40
    ELSE IF date_diff < 0 THEN 20
    ELSE 50

\* the date-proximity score with the second week scored like the far future
DateScoreSecondWeekFar(date_diff) ==
    IF date_diff = 0 THEN 100
    ELSE IF 0 < date_diff /\ date_diff <= 3 THEN 80
    ELSE IF 3 < date_diff /\ date_diff <= 7 THEN 60
    ELSE IF date_diff < 0 THEN 20
    ELSE 30

\* lines 131-144: the date-proximity score
DateScore(date_diff) ==
    IF date_diff = 0 THEN 100
    ELSE IF 0 < date_diff /\ date_diff <= 3 THEN 80
    ELSE IF 3 < date_diff /\ date_diff <= 7 THEN 60
    ELSE IF 7 < date_diff /\ date_diff <= 14 THEN 40
    ELSE IF date_diff < 0 THEN 20
    ELSE 30

\* lines 146-153: the early-arrival and wait-time adjustments
AdjustedScore(r) ==
    DateScore(r.date_diff)
      + (IF r.arrived_early THEN 10 ELSE 0)
      + (IF r.wait_time_minutes > 30 THEN 15 ELSE 0)

\* lines 155-161: the category of a score
Category(score) ==
    IF score >= 75 THEN "High"
    ELSE IF score >= 50 THEN "Medium"
    ELSE "Low"

calculate_priority(r) ==
    [category |-> Category(AdjustedScore(r)), score |-> AdjustedScore(r)]

\* rows of the appointment list
MaxDateDiff == 16
MaxPast == 2
WaitTimes == {0, 30, 31, 35}
PriorityRows ==
    [date_diff : (0 - MaxPast)..MaxDateDiff, arrived_early : BOOLEAN,
     wait_time_minutes : WaitTimes]

\* lines 164-172: the loop over the filtered rows, one row at a time
NextRow ==
    /\ priority # NoPriority
    /\ row' \in PriorityRows
    /\ priority' = NoPriority
    /\ UNCHANGED <<predictorVars, clinicVars>>

CalculatePriority ==
    /\ priority = NoPriority
    /\ priority' = calculate_priority(row)
    /\ UNCHANGED <<row, predictorVars, clinicVars>>

----------------------------------------------------------------------------
(* Clinic data: appointments_df and doctors_df *)

\* A date is a day number, with day 0 a Monday; a time of day is in minutes
\* since midnight.  appointments_df is held as the number of rows of each kind
\* (doctor, date, time, arrived early); doctors_df as the sequence of its rows.
Weekday(date) == date % 7
Hour(time) == time \div 60
Minute(time) == time % 60

Appt(id, d, t, early) ==
    [doctor_id |-> id, appointment_date |-> d, appointment_time |-> t, arrived_early |-> early]

Doctor(id, specialty, minutes, available) ==
    [doctor_id |-> id, specialty |-> specialty, avg_consultation_time |-> minutes,
     is_available |-> available]

NoResult == [op |-> "none"]

\* the number of rows of appointments_df whose kind is in S
RECURSIVE RowCount(_, _)
RowCount(df, S) ==
    IF S = {} THEN 0
    ELSE LET k == CHOOSE k \in S : TRUE
         IN df[k] + RowCount(df, S \ {k})

\* DataFrame.empty
IsEmpty(df) == RowCount(df, DOMAIN df) = 0

----------------------------------------------------------------------------
(* ScheduleOptimizer.calculate_doctor_backlog *)

\* lines 167-180: the step table
BacklogLevel(remaining_count) ==
    IF remaining_count <= 2 THEN 0
    ELSE IF remaining_count <= 5 THEN 1
    ELSE IF remaining_count <= 8 THEN 2
    ELSE IF remaining_count <= 12 THEN 3
    ELSE IF remaining_count <= 15 THEN 4
    ELSE 5

\* the backlog with the doctor filter of line 154 left out
BacklogOfAnyDoctor(doctor_id, current_datetime, df) ==
    LET doctor_appointments ==
            {k \in DOMAIN df : k.appointment_date = current_datetime.date}
        remaining_appointments ==
            {k \in doctor_appointments : k.appointment_time >= current_datetime.time}
    IN IF RowCount(df, doctor_appointments) = 0 THEN 0
       ELSE BacklogLevel(RowCount(df, remaining_appointments))

\* the backlog counting the appointments up to the current time
BacklogOfEarlierTimes(doctor_id, current_datetime, df) ==
    LET doctor_appointments ==
            {k \in DOMAIN df : /\ k.doctor_id = doctor_id
                               /\ k.appointment_date = current_datetime.date}
        remaining_appointments ==
            {k \in doctor_appointments : k.appointment_time <= current_datetime.time}
    IN IF RowCount(df, doctor_appointments) = 0 THEN 0
       ELSE BacklogLevel(RowCount(df, remaining_appointments))

\* the backlog with the time filter of lines 161-163 left out
BacklogOfWholeDay(doctor_id, current_datetime, df) ==
    LET doctor_appointments ==
            {k \in DOMAIN df : /\ k.doctor_id = doctor_id
                               /\ k.appointment_date = current_datetime.date}
    IN IF RowCount(df, doctor_appointments) = 0 THEN 0
       ELSE BacklogLevel(RowCount(df, doctor_appointments))

\* lines 151-180
calculate_doctor_backlog(doctor_id, current_datetime, df) ==
    LET doctor_appointments ==
            {k \in DOMAIN df : /\ k.doctor_id = doctor_id
                               /\ k.appointment_date = current_datetime.date}
        remaining_appointments ==
            {k \in doctor_appointments : k.appointment_time >= current_datetime.time}
    IN IF RowCount(df, doctor_appointments) = 0 THEN 0
       ELSE BacklogLevel(RowCount(df, remaining_appointments))

\* one doctor's bookings of one time of day, and a row or none of each other kind
MaxBookings == 16
BacklogBusyKind == Appt(1, 0, 630, FALSE)
BacklogOtherKinds ==
    {Appt(1, 0, 600, FALSE), Appt(1, 0, 660, FALSE), Appt(1, 1, 630, FALSE),
     Appt(2, 0, 630, FALSE)}
BacklogFrames ==
    {(BacklogBusyKind :> n) @@ others :
        n \in 0..MaxBookings, others \in [BacklogOtherKinds -> {0, 1}]}

CalculateBacklog(doctor_id) ==
    /\ result = NoResult
    /\ result' = [op |-> "backlog", doctor_id |-> doctor_id,
                  level |-> calculate_doctor_backlog(doctor_id, now, appointments)]
    /\ UNCHANGED <<now, appointments, doctors, previous, predictorVars, priorityVars>>

----------------------------------------------------------------------------
(* ScheduleOptimizer.calculate_optimal_slots *)

\* lines 12-14
optimization_window_days == 7
peak_start_hour == 17
peak_end_hour == 20

\* line 48: list(range(9, 21))
working_hours == [i \in 1..12 |-> 8 + i]

RECURSIVE Flatten(_)
Flatten(ss) == IF ss = <<>> THEN <<>> ELSE Head(ss) \o Flatten(Tail(ss))

\* two slots an hour at the least
SlotsPerHourAtLeastTwo(consultation_time) == Max2(2, 60 \div consultation_time)

\* line 58: max(1, int(60 / consultation_time)), for a positive time
SlotsPerHour(consultation_time) == Max2(1, 60 \div consultation_time)

\* every doctor taken for available
AvailableDoctorsAll(df) == df

\* line 42
available_doctors(df) == SelectSeq(df, LAMBDA d : d.is_available = TRUE)

\* only Sunday taken for the weekend
IsWeekendSundayOnly(slot_date) == Weekday(slot_date) >= 6

\* lines 62-66
IsWeekend(slot_date) == Weekday(slot_date) >= 5

\* the existing appointments left out
BusyHoursIgnored(df, doctor_id, slot_date, hour) == 0

\* lines 69-81 and 86: busy_hours.get(hour, 0)
busy_hours(df, doctor_id, slot_date, hour) ==
    RowCount(df, {k \in DOMAIN df : /\ k.doctor_id = doctor_id
                                    /\ k.appointment_date = slot_date
                                    /\ Hour(k.appointment_time) = hour})

\* lines 84-124: the slots of one doctor, date and hour; the time string
\* "HH:MM" is held as its two numbers
HourSlots(doctor, slot_date, hour, df, current_datetime) ==
    LET consultation_time == doctor.avg_consultation_time
        slots_per_hour == SlotsPerHour(consultation_time)
        current_bookings == busy_hours(df, doctor.doctor_id, slot_date, hour)
        remaining_slots == slots_per_hour - current_bookings
        is_peak_hour == hour >= peak_start_hour /\ hour < peak_end_hour
        base == IF is_peak_hour THEN 100 - consultation_time ELSE 50
        backlog_factor == calculate_doctor_backlog(doctor.doctor_id, current_datetime, df)
    IN IF current_bookings >= slots_per_hour THEN <<>>
       ELSE [slot_index \in 1..remaining_slots |->
                [doctor_id |-> doctor.doctor_id,
                 specialty |-> doctor.specialty,
                 date |-> slot_date,
                 time |-> [hour |-> hour,
                           minute |-> (60 \div slots_per_hour) * (slot_index - 1)],
                 expected_duration |-> consultation_time,
                 priority |-> base - backlog_factor * 10,
                 is_peak_hour |-> is_peak_hour]]

\* lines 60-124: the slots of one doctor and date
DaySlots(doctor, slot_date, df, current_datetime) ==
    IF IsWeekend(slot_date) THEN <<>>
    ELSE Flatten([i \in DOMAIN working_hours |->
                    HourSlots(doctor, slot_date, working_hours[i], df, current_datetime)])

\* lines 54-124: the slots of one doctor
DoctorSlots(doctor, df, current_datetime) ==
    Flatten([day \in 1..optimization_window_days |->
                DaySlots(doctor, current_datetime.date + (day - 1), df, current_datetime)])

Reverse(s) == [i \in 1..Len(s) |-> s[Len(s) + 1 - i]]

RECURSIVE Descending(_)
Descending(S) ==
    IF S = {} THEN <<>> ELSE <<Max(S)>> \o Descending(S \ {Max(S)})

\* line 129: sort_values('priority', ascending=False).  The default sort is a
\* quicksort, which does not fix the order of rows of equal priority: they come
\* out in the order they went in or, here, in the opposite one.
TieOrders == {"encounter", "reverse"}
SortValues(slots, tie) ==
    LET keys == Descending({slots[i].priority : i \in DOMAIN slots})
        Group(p) == SelectSeq(slots, LAMBDA x : x.priority = p)
    IN Flatten([i \in DOMAIN keys |->
                  IF tie = "encounter" THEN Group(keys[i]) ELSE Reverse(Group(keys[i]))])

\* lines 51-124: the list optimal_slots when the loops are through
optimal_slots(df, doctors_df, current_datetime) ==
    Flatten([i \in DOMAIN available_doctors(doctors_df) |->
                DoctorSlots(available_doctors(doctors_df)[i], df, current_datetime)])

\* lines 34-131; an empty DataFrame is the empty sequence
calculate_optimal_slots(df, doctors_df, current_datetime, tie) ==
    IF IsEmpty(df) \/ doctors_df = <<>> THEN <<>>
    ELSE IF available_doctors(doctors_df) = <<>> THEN <<>>
    ELSE SortValues(optimal_slots(df, doctors_df, current_datetime), tie)

CalculateOptimalSlots(tie) ==
    /\ result = NoResult
    /\ result' = [op |-> "slots",
                  slots |-> calculate_optimal_slots(appointments, doctors, now, tie)]
    /\ UNCHANGED <<now, appointments, doctors, previous, predictorVars, priorityVars>>

\* the snapshots the slots are computed from: one doctor with two, three
\* or seven slots an hour, a second one with one slot an hour, and a few appointments
MaxSameSlot == 2
SlotDoctorLists ==
    {<<>>}
    \cup {<<Doctor(1, "Cardiology", m, a)>> : m \in {8, 20, 30}, a \in BOOLEAN}
    \cup {<<Doctor(1, "Cardiology", m, a), Doctor(2, "Cardiology", 45, b)>> :
              m \in {8, 20, 30}, a \in BOOLEAN, b \in BOOLEAN}
SlotBusyKind == Appt(1, 0, 540, FALSE)
SlotOtherKinds ==
    {Appt(1, 0, 570, FALSE), Appt(1, 1, 1020, FALSE), Appt(2, 0, 540, FALSE)}
SlotFrames ==
    {(SlotBusyKind :> n) @@ others :
        n \in 0..MaxSameSlot, others \in [SlotOtherKinds -> {0, 1}]}
SlotClocks == {[date |-> d, time |-> t] : d \in {0, 4}, t \in {480, 600}}

----------------------------------------------------------------------------
(* ScheduleOptimizer.get_recommendations *)

\* lines 209-211: the doctors with a row of the date, and their numbers of rows
TodayIds(df, today) ==
    {k.doctor_id : k \in {j \in DOMAIN df : df[j] > 0 /\ j.appointment_date = today}}

TodayCount(df, today, doctor_id) ==
    RowCount(df, {k \in DOMAIN df : /\ k.appointment_date = today
                                    /\ k.doctor_id = doctor_id})

\* Series.value_counts: the largest count first; equal counts are put in the
\* order of the doctor ids
RECURSIVE value_counts(_, _, _)
value_counts(df, today, ids) ==
    IF ids = {} THEN <<>>
    ELSE LET m == Max({TodayCount(df, today, i) : i \in ids})
             id == Min({i \in ids : TodayCount(df, today, i) = m})
         IN <<[doctor_id |-> id, count |-> m]>> \o value_counts(df, today, ids \ {id})

DoctorIds(doctors_df) == {doctors_df[i].doctor_id : i \in DOMAIN doctors_df}

\* line 222: doctors_df[doctors_df['doctor_id'] == doctor_id].iloc[0]
DoctorInfo(doctors_df, doctor_id) ==
    doctors_df[Min({i \in DOMAIN doctors_df : doctors_df[i].doctor_id = doctor_id})]

\* lines 217-233; count > (9 * 60 / avg_time) * 0.85 in whole numbers
Overbooked(df, doctors_df, today) ==
    LET counts == value_counts(df, today, TodayIds(df, today))
        Finding(c) ==
            LET doctor_info == DoctorInfo(doctors_df, c.doctor_id)
            IN IF c.count * doctor_info.avg_consultation_time * 100 > 9 * 60 * 85
               THEN <<[kind |-> "overbooked", doctor_id |-> c.doctor_id,
                       specialty |-> doctor_info.specialty, count |-> c.count]>>
               ELSE <<>>
    IN Flatten([i \in DOMAIN counts |-> Finding(counts[i])])

\* lines 235-253
PeakCongestion(df, current_datetime) ==
    LET upcoming_count ==
            RowCount(df, {k \in DOMAIN df :
                            /\ k.appointment_date = current_datetime.date
                            /\ k.appointment_time >= current_datetime.time
                            /\ k.appointment_time < current_datetime.time + 120})
    IN IF /\ peak_start_hour <= Hour(current_datetime.time)
          /\ Hour(current_datetime.time) < peak_end_hour
          /\ upcoming_count > 30
       THEN <<[kind |-> "congestion", count |-> upcoming_count]>>
       ELSE <<>>

\* lines 255-264
Underutilized(df, doctors_df, today) ==
    LET Finding(doctor) ==
            IF TodayCount(df, today, doctor.doctor_id) < 5 /\ doctor.is_available
            THEN <<[kind |-> "underutilized", doctor_id |-> doctor.doctor_id,
                    specialty |-> doctor.specialty,
                    count |-> TodayCount(df, today, doctor.doctor_id)]>>
            ELSE <<>>
    IN Flatten([i \in DOMAIN doctors_df |-> Finding(doctors_df[i])])

\* line 272: the percentage as "{:.1f}" prints it, in tenths, rounded half to even
Tenths(early, total) ==
    LET q == (early * 1000) \div total
        r == (early * 1000) % total
    IN IF 2 * r > total \/ (2 * r = total /\ q % 2 = 1) THEN q + 1 ELSE q

\* lines 266-274
EarlyArrival(df, today) ==
    LET all == {k \in DOMAIN df : k.appointment_date = today}
        early_arrivals == RowCount(df, {k \in all : k.arrived_early = TRUE})
        total == RowCount(df, all)
    IN IF total > 0 /\ early_arrivals * 100 > 40 * total
       THEN <<[kind |-> "early_arrival", tenths |-> Tenths(early_arrivals, total)]>>
       ELSE <<>>

\* Series.unique: the values in the order they first appear
RECURSIVE Unique(_)
Unique(s) ==
    IF s = <<>> THEN <<>>
    ELSE <<Head(s)>> \o Unique(SelectSeq(Tail(s), LAMBDA x : x # Head(s)))

\* lines 276-297
Imbalance(df, doctors_df, today) ==
    LET specialties == Unique([i \in DOMAIN doctors_df |-> doctors_df[i].specialty])
        Finding(specialty) ==
            LET specialty_doctors ==
                    SelectSeq(doctors_df, LAMBDA d : d.specialty = specialty)
                \* the inner merge keeps the rows of the date whose doctor is
                \* one of doctors_df; the filter those of the specialty
                merged == TodayIds(df, today) \cap DoctorIds(specialty_doctors)
                appointments_per_doctor == {TodayCount(df, today, i) : i \in merged}
            IN IF /\ Len(specialty_doctors) > 1
                  /\ merged # {}
                  /\ Max(appointments_per_doctor) > 2 * Min(appointments_per_doctor)
               THEN <<[kind |-> "imbalance", specialty |-> specialty]>>
               ELSE <<>>
    IN Flatten([i \in DOMAIN specialties |-> Finding(specialties[i])])

\* the last 5 findings kept in place of the first 5
TopRecommendationsLastFive(recommendations) ==
    IF Len(recommendations) > 5
    THEN SubSeq(recommendations, Len(recommendations) - 4, Len(recommendations))
    ELSE IF Len(recommendations) = 0 THEN <<[kind |-> "balanced"]>>
    ELSE recommendations

\* lines 299-305
TopRecommendations(recommendations) ==
    IF Len(recommendations) > 5 THEN SubSeq(recommendations, 1, 5)
    ELSE IF Len(recommendations) = 0 THEN <<[kind |-> "balanced"]>>
    ELSE recommendations

Returns(findings) == [op |-> "recommendations", outcome |-> "return", findings |-> findings]
Raises == [op |-> "recommendations", outcome |-> "raise"]

\* lines 200-305.  Line 222 raises IndexError for a doctor id of the date's
\* rows that is not in doctors_df.
get_recommendations(current_datetime, df, doctors_df) ==
    LET today == current_datetime.date
    IN IF IsEmpty(df) \/ doctors_df = <<>>
       THEN Returns(<<[kind |-> "insufficient_data"]>>)
       ELSE IF TodayIds(df, today) = {}
       THEN Returns(<<[kind |-> "no_appointments"]>>)
       ELSE IF ~(TodayIds(df, today) \subseteq DoctorIds(doctors_df))
       THEN Raises
       ELSE Returns(TopRecommendations(
                Overbooked(df, doctors_df, today)
                \o PeakCongestion(df, current_datetime)
                \o Underutilized(df, doctors_df, today)
                \o EarlyArrival(df, today)
                \o Imbalance(df, doctors_df, today)))

\* the rows of another date dropped from appointments_df by the call
AppointmentsFilteredInPlace(df, current_datetime) ==
    [k \in DOMAIN df |-> IF k.appointment_date = current_datetime.date THEN df[k] ELSE 0]

\* lines 209-211, 258, 268, 281-286: every selection of rows makes a new
\* frame; appointments_df is what it was
AppointmentsAfter(df, current_datetime) == df

\* the dashboard calling get_recommendations, and then once more
GetRecommendations ==
    /\ previous = NoResult
    /\ result' = get_recommendations(now, appointments, doctors)
    /\ previous' = result
    /\ appointments' = AppointmentsAfter(appointments, now)
    /\ UNCHANGED <<now, doctors, predictorVars, priorityVars>>

\* the snapshots the recommendations are made from: two cardiologists, two
\* neurologists and a dermatologist, or the first of them, and rows of
\* doctors 1, 2, 3 and 6 on day 0 and of doctor 1 on day 1
RecDoctorLists ==
    {SubSeq(<<Doctor(1, "Cardiology", m, TRUE), Doctor(2, "Cardiology", 15, TRUE),
              Doctor(3, "Neurology", 15, a), Doctor(4, "Neurology", 15, TRUE),
              Doctor(5, "Dermatology", 15, TRUE)>>, 1, n) :
        m \in {15, 50}, a \in BOOLEAN, n \in {0, 2, 3, 5}}
RecFrames ==
    {(Appt(1, 0, 1030, FALSE) :> a) @@ (Appt(1, 0, 1030, TRUE) :> b)
        @@ (Appt(2, 0, 1030, FALSE) :> c) @@ (Appt(3, 0, 600, FALSE) :> d)
        @@ (Appt(6, 0, 1030, FALSE) :> e) @@ (Appt(1, 1, 1030, FALSE) :> f) :
        a \in {0, 10, 31}, b \in {0, 8}, c \in {0, 3, 5, 31}, d \in {0, 1}, e \in {0, 1},
        f \in {0, 1}}
RecClocks == {[date |-> 0, time |-> t] : t \in {600, 1020}}

----------------------------------------------------------------------------
(* app.py: the simulated clock *)

\* the days the clock may run into
MaxClockDays == 1

\* lines 90-99: "Advance Time (30 min)"; the page is run again
AdvanceTime ==
    /\ now.date < MaxClockDays
    /\ now' = IF now.time + 30 >= 24 * 60
              THEN [date |-> now.date + 1, time |-> now.time + 30 - 24 * 60]
              ELSE [date |-> now.date, time |-> now.time + 30]
    /\ result' = NoResult
    /\ UNCHANGED <<appointments, doctors, previous, predictorVars, priorityVars>>

\* the snapshots the clock runs over: rows of doctor 1 in the morning, at noon
\* and in the evening of day 0 and on day 1, and a row of doctor 2
ClockFrames ==
    {(Appt(1, 0, 540, FALSE) :> a) @@ (Appt(1, 0, 720, FALSE) :> b)
        @@ (Appt(1, 0, 1020, FALSE) :> c) @@ (Appt(1, 1, 600, FALSE) :> d)
        @@ (Appt(2, 0, 600, FALSE) :> e) :
        a \in {0, 3}, b \in {0, 3}, c \in {0, 3}, d \in {0, 6}, e \in {0, 1}}
ClockDoctors == <<Doctor(1, "Cardiology", 20, TRUE), Doctor(2, "Cardiology", 45, TRUE)>>

----------------------------------------------------------------------------
(* Specifications *)

PredictorInit ==
    /\ model = None
    /\ model_trained = FALSE
    /\ feature_importance = 0
    /\ disk = NoFile
    /\ nextId = 0
    /\ trainPc = "idle"
    /\ trainIn = NoInput
    /\ trainY = <<>>
    /\ trainOld = NoOld
    /\ predPc = "idle"
    /\ predX = "f1"
    /\ lastGood = 0
    /\ everModel = FALSE
    /\ last = Taken

\* no clinic snapshot is loaded
ClinicInit ==
    /\ now = [date |-> 0, time |-> 0]
    /\ appointments = <<>>
    /\ doctors = <<>>
    /\ result = NoResult
    /\ previous = NoResult

Init ==
    /\ PredictorInit
    /\ row = NoRow
    /\ priority = NoPriority
    /\ ClinicInit

\* the caller is between two calls
Idle == trainPc = "idle" /\ predPc = "idle" /\ last = Taken

\* the caller takes the result of the call that ended
TakeResult ==
    /\ trainPc = "idle" /\ predPc = "idle"
    /\ last # Taken
    /\ last' = Taken
    /\ UNCHANGED <<model, model_trained, feature_importance, disk, nextId, trainPc,
                   trainIn, trainY, trainOld, predPc, predX, lastGood, everModel>>

\* one session: the calls on the predictor run one after the other
Next ==
    \/ Idle /\ NewInstance /\ UNCHANGED <<priorityVars, clinicVars>>
    \/ Idle /\ (\E df \in TrainFrames, de \in BOOLEAN : TrainCall(df, de)) /\ UNCHANGED <<priorityVars, clinicVars>>
    \/ TrainCreate /\ UNCHANGED <<priorityVars, clinicVars>>
    \/ TrainSplit /\ UNCHANGED <<priorityVars, clinicVars>>
    \/ TrainFit /\ UNCHANGED <<priorityVars, clinicVars>>
    \/ TrainImportance /\ UNCHANGED <<priorityVars, clinicVars>>
    \/ TrainDump /\ UNCHANGED <<priorityVars, clinicVars>>
    \/ TrainFlag /\ UNCHANGED <<priorityVars, clinicVars>>
    \/ Idle /\ (\E x \in Features : PredictCall(x)) /\ UNCHANGED <<priorityVars, clinicVars>>
    \/ PredictEval /\ UNCHANGED <<priorityVars, clinicVars>>
    \/ Idle /\ (\E d \in Dates, t \in Times, df \in BatchFrames :
                  PredictBatch([date |-> d, time |-> t], df)) /\ UNCHANGED <<priorityVars, clinicVars>>
    \/ TakeResult /\ UNCHANGED <<priorityVars, clinicVars>>

Spec == Init /\ [][Next]_vars

\* a predict call of one thread interleaved with a train call of another
ConcNext ==
    \/ NewInstance /\ UNCHANGED <<priorityVars, clinicVars>>
    \/ (\E df \in TrainFrames, de \in BOOLEAN : TrainCall(df, de)) /\ UNCHANGED <<priorityVars, clinicVars>>
    \/ TrainCreate /\ UNCHANGED <<priorityVars, clinicVars>>
    \/ TrainSplit /\ UNCHANGED <<priorityVars, clinicVars>>
    \/ TrainFit /\ UNCHANGED <<priorityVars, clinicVars>>
    \/ TrainImportance /\ UNCHANGED <<priorityVars, clinicVars>>
    \/ TrainDump /\ UNCHANGED <<priorityVars, clinicVars>>
    \/ TrainFlag /\ UNCHANGED <<priorityVars, clinicVars>>
    \/ (\E x \in Features : PredictCall(x)) /\ UNCHANGED <<priorityVars, clinicVars>>
    \/ PredictEval /\ UNCHANGED <<priorityVars, clinicVars>>

ConcSpec == Init /\ [][ConcNext]_vars

\* the appointment list scores its rows
PriorityInit ==
    /\ PredictorInit
    /\ row \in PriorityRows
    /\ priority = NoPriority
    /\ ClinicInit

PriorityNext == NextRow \/ CalculatePriority

PrioritySpec == PriorityInit /\ [][PriorityNext]_vars

\* the backlog of a doctor over the clinic's appointments
BacklogInit ==
    /\ PredictorInit
    /\ row = NoRow
    /\ priority = NoPriority
    /\ now \in {[date |-> 0, time |-> t] : t \in {600, 630}}
    /\ appointments \in BacklogFrames
    /\ doctors = <<>>
    /\ result = NoResult
    /\ previous = NoResult

BacklogNext == \E id \in {1, 2} : CalculateBacklog(id)

BacklogSpec == BacklogInit /\ [][BacklogNext]_vars

\* the open slots of a clinic snapshot
SlotInit ==
    /\ PredictorInit
    /\ row = NoRow
    /\ priority = NoPriority
    /\ now \in SlotClocks
    /\ appointments \in SlotFrames
    /\ doctors \in SlotDoctorLists
    /\ result = NoResult
    /\ previous = NoResult

SlotNext == \E tie \in TieOrders : CalculateOptimalSlots(tie)

SlotSpec == SlotInit /\ [][SlotNext]_vars

\* the recommendations of a clinic snapshot, asked for twice
RecInit ==
    /\ PredictorInit
    /\ row = NoRow
    /\ priority = NoPriority
    /\ now \in RecClocks
    /\ appointments \in RecFrames
    /\ doctors \in RecDoctorLists
    /\ result = NoResult
    /\ previous = NoResult

RecNext == GetRecommendations

RecSpec == RecInit /\ [][RecNext]_vars

\* the backlog and the slots as the simulated clock is advanced
ClockInit ==
    /\ PredictorInit
    /\ row = NoRow
    /\ priority = NoPriority
    /\ now = [date |-> 0, time |-> 510]
    /\ appointments \in ClockFrames
    /\ doctors = ClockDoctors
    /\ result = NoResult
    /\ previous = NoResult

ClockNext ==
    \/ AdvanceTime
    \/ \E id \in {1, 2} : CalculateBacklog(id)
    \/ \E tie \in TieOrders : CalculateOptimalSlots(tie)

ClockSpec == ClockInit /\ [][ClockNext]_vars

----------------------------------------------------------------------------
(* Claims *)

\* the model a train call found stored was a complete one, or there was none
OldComplete(old) == old.model = None \/ old.model.fitted

\* C1: a predict that runs while a train call is in progress is answered by the
\* complete model stored before that call or by the complete new one; it never
\* evaluates a pipeline object that is not fitted.
C1_PredictSeesOldOrNew ==
    (last.op = "predict" /\ last.during_train /\ OldComplete(last.old))
        => last.observed # "unfitted"

\* C2: after a train call that returns False or raises, the model stored before
\* the call, if there was one, is still the stored model and the trained flag is
\* as it was.
C2_FailedTrainKeepsModel ==
    (last.op = "train" /\ last.ret # "True" /\ last.old.model # None)
        => (model = last.old.model /\ model_trained = last.old.model_trained)

\* C3: predict returns a value >= 0 in every model state and for every feature
\* vector, and exactly 30 on an instance on which no train has succeeded and no
\* model was loaded.
C3_PredictNonNegative ==
    last.op = "predict"
        => (/\ ~last.raised
            /\ last.value >= 0
            /\ (~everModel => last.value = DefaultWait))

\* a trained instance answered with a negative model output, clamped to 0
C3_Witness ==
    last.op = "predict" /\ last.observed = "fitted" /\ ~last.eval_failed /\ last.value = 0

\* C4: once a train call has returned True, every predict up to the next
\* successful train is answered by the fitted model of that train.
C4_LatestModelAnswers ==
    (last.op = "predict" /\ lastGood # 0)
        => (last.by = lastGood /\ last.observed = "fitted")

\* insufficient data: no appointments, no doctors, a single example, or fewer
\* than two distinct labels
Insufficient(y, doctors_empty) ==
    Len(y) = 0 \/ doctors_empty \/ Len(y) = 1 \/ Cardinality(Range(y)) < 2

\* C5: train answers every insufficient-data input with the return value False;
\* it neither raises nor returns True for it.
C5_InsufficientDataIsFalse ==
    (last.op = "train" /\ Insufficient(last.y, last.doctors_empty))
        => last.ret = "False"

\* C6: when the model evaluation fails inside predict, predict returns 30, no
\* exception reaches the caller, and the stored model and the trained flag are
\* what they were before the call.
C6_PredictCatches ==
    (last.op = "predict" /\ last.eval_failed)
        => (/\ ~last.raised
            /\ last.value = DefaultWait
            /\ model = last.before.model
            /\ model_trained = last.before.model_trained)

\* a malformed feature vector handed to an instance with a fitted model
C6_Witness ==
    last.op = "predict" /\ last.eval_failed /\ last.observed = "fitted"
        /\ last.x = "malformed"

\* the rows of df for the current date at or after the current time, in order
Matching(df, ct) ==
    {i \in DOMAIN df : df[i].appointment_date = ct.date /\ df[i].appointment_time >= ct.time}

\* C7: predict_batch on a trained instance never raises: when the evaluation of
\* the matching rows fails it returns those rows with predicted_wait_time 30.
C7_BatchNeverRaises ==
    (last.op = "predict_batch" /\ last.trained /\ last.fitted)
        => (/\ ~last.raised
            /\ (\E i \in Matching(last.input, last.current_time) :
                    last.input[i].features \notin GoodFeatures)
                 => (/\ Len(last.results) = Cardinality(Matching(last.input, last.current_time))
                     /\ \A j \in DOMAIN last.results :
                           last.results[j].predicted_wait_time = DefaultWait))

\* s is t with the column predicted_wait_time added to every row, each value >= 0
AnnotatedNonNegative(s, t) ==
    /\ Len(s) = Len(t)
    /\ \A j \in DOMAIN s :
          /\ DOMAIN s[j] = DOMAIN t[j] \cup {"predicted_wait_time"}
          /\ \A c \in DOMAIN t[j] : s[j][c] = t[j][c]
          /\ s[j].predicted_wait_time >= 0

\* the subsequence of df at the indices in I
RECURSIVE Pick(_, _, _)
Pick(df, I, i) ==
    IF i > Len(df) THEN <<>>
    ELSE IF i \in I THEN <<df[i]>> \o Pick(df, I, i + 1)
    ELSE Pick(df, I, i + 1)

\* C8: with a trained model predict_batch returns exactly the input rows of the
\* current date at or after the current time, one output row for each, every one
\* annotated with a predicted_wait_time >= 0, and an empty result when none matches.
C8_BatchReturnsMatchingRows ==
    (last.op = "predict_batch" /\ last.trained)
        => (/\ ~last.raised
            /\ AnnotatedNonNegative(last.results,
                    Pick(last.input, Matching(last.input, last.current_time), 1)))

\* C9: without a trained model predict_batch returns every input row, in order,
\* with predicted_wait_time 30, and the caller's frame is as it was.
C9_BatchDefaultsAllRows ==
    (last.op = "predict_batch" /\ ~last.trained)
        => (/\ ~last.raised
            /\ Len(last.results) = Len(last.input)
            /\ \A j \in DOMAIN last.results :
                  /\ DOMAIN last.results[j] = DOMAIN last.input[j] \cup {"predicted_wait_time"}
                  /\ \A c \in DOMAIN last.input[j] : last.results[j][c] = last.input[j][c]
                  /\ last.results[j].predicted_wait_time = DefaultWait
            /\ last.input_after = last.input)

\* an untrained instance handed rows of which one is not of the current date and time
C9_Witness ==
    /\ last.op = "predict_batch" /\ ~last.trained
    /\ Len(last.input) >= 2
    /\ Cardinality(Matching(last.input, last.current_time)) < Len(last.input)
    /\ Len(last.results) = Len(last.input)

\* the base score, the adjustments and the categories as section 4.3 states them
BaseScore(d) ==
    CASE d = 0 -> 100
      [] d \in 1..3 -> 80
      [] d \in 4..7 -> 60
      [] d \in 8..14 -> 40
      [] d > 14 -> 30
      [] d < 0 -> 20

\* C10: the score is base(dateDiff) + 10 if arrivedEarly + 15 if wait > 30, and
\* the category is High from 75, Medium from 50 to below 75, Low below 50; every
\* row gets exactly one of the three categories.
C10_PriorityScore ==
    priority # NoPriority
        => LET expected == BaseScore(row.date_diff)
                             + (IF row.arrived_early THEN 10 ELSE 0)
                             + (IF row.wait_time_minutes > 30 THEN 15 ELSE 0)
           IN /\ priority.score = expected
              /\ priority.category \in {"High", "Medium", "Low"}
              /\ (priority.category = "High") = (expected >= 75)
              /\ (priority.category = "Medium") = (expected >= 50 /\ expected < 75)
              /\ (priority.category = "Low") = (expected < 50)

\* the row (2, early, 35) scored 105 High
C10_Witness ==
    /\ row = [date_diff |-> 2, arrived_early |-> TRUE, wait_time_minutes |-> 35]
    /\ priority = [category |-> "High", score |-> 105]

\* C11: the row (10, not early, wait 0) is scored 30 and Low.
C11_TenDaysScores30 ==
    (priority # NoPriority
       /\ row = [date_diff |-> 10, arrived_early |-> FALSE, wait_time_minutes |-> 0])
        => (priority.score = 30 /\ priority.category = "Low")

\* C11 as amended: the row (10, not early, wait 0) is scored 40, the score of
\* the second week, and Low.
C11_TenDaysScores40 ==
    (priority # NoPriority
       /\ row = [date_diff |-> 10, arrived_early |-> FALSE, wait_time_minutes |-> 0])
        => (priority.score = 40 /\ priority.category = "Low")

\* the row (10, not early, wait 0) has been scored
C11_Witness ==
    /\ row = [date_diff |-> 10, arrived_early |-> FALSE, wait_time_minutes |-> 0]
    /\ priority.category = "Low"

\* the step table of section 4.4
StepTable(n) ==
    CASE n <= 2 -> 0
      [] n \in 3..5 -> 1
      [] n \in 6..8 -> 2
      [] n \in 9..12 -> 3
      [] n \in 13..15 -> 4
      [] n >= 16 -> 5

\* the doctor's rows of the current date at or after the current time
Remaining(id) ==
    RowCount(appointments,
             {k \in DOMAIN appointments : /\ k.doctor_id = id
                                          /\ k.appointment_date = now.date
                                          /\ ~(k.appointment_time < now.time)})

\* C12: the backlog level of a doctor is the step table applied to the number
\* of that doctor's appointments of the current date at or after the current
\* time; other doctors' rows, other dates and earlier times do not count, and
\* the level is 0 without any appointment that day.
C12_BacklogStepTable ==
    result.op = "backlog" => result.level = StepTable(Remaining(result.doctor_id))

\* a level above 0 computed next to rows of another doctor, another date and an
\* earlier time
C12_Witness ==
    /\ result.op = "backlog" /\ result.doctor_id = 1 /\ result.level = 4
    /\ now.time = 630
    /\ \A k \in BacklogOtherKinds : appointments[k] = 1

\* the slots the latest call returned
Slots == IF result.op = "slots" THEN Range(result.slots) ELSE {}

\* the rows of the doctor that start within the hour on the date
BookedInHour(id, d, h) ==
    RowCount(appointments,
             {k \in DOMAIN appointments : /\ k.doctor_id = id
                                          /\ k.appointment_date = d
                                          /\ k.appointment_time \in (60 * h)..(60 * h + 59)})

\* C13: no slot is returned in an hour in which the doctor's existing bookings
\* already equal or exceed max(1, floor(60 / average consultation minutes)).
C13_NoSlotInFullHour ==
    \A s \in Slots :
        \A i \in DOMAIN doctors :
            doctors[i].doctor_id = s.doctor_id
                => BookedInHour(s.doctor_id, s.date, s.time.hour)
                       < Max2(1, 60 \div doctors[i].avg_consultation_time)

\* slots were returned for a doctor one of whose hours in the window is full
C13_Witness ==
    /\ now.date = 0
    /\ \E s \in Slots : s.doctor_id = 1
    /\ \E i \in DOMAIN doctors :
          /\ doctors[i].doctor_id = 1
          /\ BookedInHour(1, 0, 9) >= Max2(1, 60 \div doctors[i].avg_consultation_time)

\* C14: no returned slot has the doctor, date and time of day of an existing
\* appointment.
C14_SlotsNotBooked ==
    \A s \in Slots :
        \A k \in DOMAIN appointments :
            appointments[k] > 0
                => ~(/\ k.doctor_id = s.doctor_id
                     /\ k.appointment_date = s.date
                     /\ k.appointment_time = 60 * s.time.hour + s.time.minute)

\* C15: the result is empty when no doctor is flagged available or when the
\* appointments or the doctors are empty, and every slot returned belongs to a
\* doctor flagged available.
C15_OnlyAvailableDoctors ==
    result.op = "slots" =>
        /\ (\/ doctors = <<>>
            \/ \A k \in DOMAIN appointments : appointments[k] = 0
            \/ \A i \in DOMAIN doctors : ~doctors[i].is_available)
              => result.slots = <<>>
        /\ \A s \in Slots :
              \E i \in DOMAIN doctors :
                  doctors[i].doctor_id = s.doctor_id /\ doctors[i].is_available

\* slots were returned next to a doctor who is not available
C15_Witness ==
    /\ Slots # {}
    /\ \E i \in DOMAIN doctors : ~doctors[i].is_available

\* C16: every slot's date is one of the 7 days from the current date on and
\* not a Saturday or Sunday, and its time is in 09:00..20:59.
C16_SlotsInWindow ==
    \A s \in Slots :
        /\ s.date \in now.date..(now.date + 6)
        /\ s.date % 7 \notin {5, 6}
        /\ s.time.hour \in 9..20
        /\ s.time.minute \in 0..59

\* slots were returned on the last day of the window and in its last hour,
\* with the weekend inside the window
C16_Witness ==
    /\ \E s \in Slots : s.date = now.date + 6 /\ s.time.hour = 20 /\ s.time.minute = 40
    /\ \E s \in Slots : s.date = now.date + 3

\* the number of rows of the doctor on the current date
Today(id) ==
    RowCount(appointments,
             {k \in DOMAIN appointments : k.doctor_id = id /\ k.appointment_date = now.date})

NoneToday ==
    \A k \in DOMAIN appointments : appointments[k] > 0 => k.appointment_date # now.date

Returned == result.op = "recommendations" /\ result.outcome = "return"

\* C17: the recommendations are the single "no appointments" finding when
\* there is no appointment on the current date, the whole collection being
\* empty included, and between 1 and 5 findings in every other case.
C17_NoAppointmentsOrOneToFive ==
    result.op = "recommendations" =>
        /\ Returned
        /\ IF NoneToday THEN result.findings = <<[kind |-> "no_appointments"]>>
           ELSE Len(result.findings) \in 1..5

\* two doctors of the specialty with 10 and 3 rows on the current date
TenAndThree(specialty) ==
    \E i, j \in DOMAIN doctors :
        /\ i # j
        /\ doctors[i].specialty = specialty /\ doctors[j].specialty = specialty
        /\ Today(doctors[i].doctor_id) = 10 /\ Today(doctors[j].doctor_id) = 3

\* C18: with two doctors of one specialty at 10 and 3 appointments on the
\* current date, the recommendations contain the imbalance finding of that
\* specialty, whatever else is in the snapshot.
C18_TenAndThreeIsReported ==
    result.op = "recommendations" =>
        \A i \in DOMAIN doctors :
            TenAndThree(doctors[i].specialty)
                => /\ Returned
                   /\ \E n \in DOMAIN result.findings :
                         result.findings[n] =
                             [kind |-> "imbalance", specialty |-> doctors[i].specialty]

Unbalanced(specialty) ==
    LET counts == {Today(doctors[i].doctor_id) :
                      i \in {j \in DOMAIN doctors : doctors[j].specialty = specialty}}
    IN \E hi, lo \in counts :
          /\ \A c \in counts : lo <= c /\ c <= hi
          /\ hi > 2 * lo

\* C20: for a specialty of 2 or more doctors the imbalance finding is made
\* exactly when the largest of the doctors' numbers of appointments today
\* exceeds twice the smallest, a doctor of the specialty without an appointment
\* counting 0.  Lists of 5 findings are left out: there a finding may have been
\* cut off.
C20_ImbalanceCountsIdleDoctors ==
    (Returned /\ ~NoneToday /\ Len(result.findings) < 5) =>
        \A i \in DOMAIN doctors :
            (\E j \in DOMAIN doctors : j # i /\ doctors[j].specialty = doctors[i].specialty)
                => ((\E n \in DOMAIN result.findings :
                        result.findings[n] =
                            [kind |-> "imbalance", specialty |-> doctors[i].specialty])
                    <=> Unbalanced(doctors[i].specialty))

\* the doctors, as places in the doctor collection, that each check flags
OverbookedPlaces ==
    {i \in DOMAIN doctors :
        /\ Today(doctors[i].doctor_id) > 0
        /\ Today(doctors[i].doctor_id) * doctors[i].avg_consultation_time * 100 > 540 * 85}

UnderusedPlaces ==
    {i \in DOMAIN doctors :
        doctors[i].is_available /\ Today(doctors[i].doctor_id) < 5}

\* the rows of the current date, all of them, the early ones, and those of the
\* two hours from the current time on
RowsToday(P(_)) ==
    RowCount(appointments,
             {k \in DOMAIN appointments : k.appointment_date = now.date /\ P(k)})

Congested ==
    /\ now.time \in (17 * 60)..(20 * 60 - 1)
    /\ RowsToday(LAMBDA k : k.appointment_time \in now.time..(now.time + 119)) > 30

EarlyDrift ==
    RowsToday(LAMBDA k : k.arrived_early) * 100 > 40 * RowsToday(LAMBDA k : TRUE)

\* the specialties of 2 or more doctors whose doctors with an appointment
\* today are out of balance
ImbalancedSpecialties ==
    {sp \in {doctors[i].specialty : i \in DOMAIN doctors} :
        LET places == {i \in DOMAIN doctors : doctors[i].specialty = sp}
            busy == {Today(doctors[i].doctor_id) : i \in places} \ {0}
        IN /\ Cardinality(places) >= 2
           /\ \E hi, lo \in busy : hi > 2 * lo}

\* the kind of the n-th of the findings produced, by the numbers of findings
\* of each check
KindAt(n) ==
    LET a == Cardinality(OverbookedPlaces)
        b == a + (IF Congested THEN 1 ELSE 0)
        c == b + Cardinality(UnderusedPlaces)
        d == c + (IF EarlyDrift THEN 1 ELSE 0)
    IN IF n <= a THEN "overbooked"
       ELSE IF n <= b THEN "congestion"
       ELSE IF n <= c THEN "underutilized"
       ELSE IF n <= d THEN "early_arrival"
       ELSE "imbalance"

Produced ==
    Cardinality(OverbookedPlaces) + (IF Congested THEN 1 ELSE 0)
        + Cardinality(UnderusedPlaces) + (IF EarlyDrift THEN 1 ELSE 0)
        + Cardinality(ImbalancedSpecialties)

\* the place in the doctor collection of the doctor a finding is about
PlaceOf(f) == CHOOSE i \in DOMAIN doctors : doctors[i].doctor_id = f.doctor_id

\* C21: when a check fires, the list returned is the first min(5, k) of the k
\* findings produced in the order overbooking, peak congestion,
\* underutilization, early arrival, imbalance: the n-th finding returned is of
\* the kind of the n-th finding produced and is about a doctor or specialty
\* the check flags, the overbooked doctors come by falling counts and the
\* underutilized ones in the order of the doctor collection.
C21_FirstFiveInCheckOrder ==
    (Returned /\ ~NoneToday /\ doctors # <<>> /\ Produced > 0) =>
        LET fs == result.findings
        IN /\ Len(fs) = (IF Produced > 5 THEN 5 ELSE Produced)
           /\ \A n \in DOMAIN fs :
                 /\ fs[n].kind = KindAt(n)
                 /\ fs[n].kind = "overbooked" =>
                        /\ PlaceOf(fs[n]) \in OverbookedPlaces
                        /\ fs[n].count = Today(fs[n].doctor_id)
                 /\ fs[n].kind = "underutilized" =>
                        /\ PlaceOf(fs[n]) \in UnderusedPlaces
                        /\ fs[n].count = Today(fs[n].doctor_id)
                 /\ fs[n].kind = "imbalance" => fs[n].specialty \in ImbalancedSpecialties
           /\ \A n, m \in DOMAIN fs :
                 n < m =>
                    /\ fs[n] # fs[m]
                    /\ (fs[n].kind = "overbooked" /\ fs[m].kind = "overbooked")
                          => fs[n].count >= fs[m].count
                    /\ (fs[n].kind = "underutilized" /\ fs[m].kind = "underutilized")
                          => PlaceOf(fs[n]) < PlaceOf(fs[m])

\* six findings were produced, the imbalance finding last, and five returned
C21_Witness ==
    /\ Returned /\ ~NoneToday /\ doctors # <<>>
    /\ Produced = 6 /\ ImbalancedSpecialties # {}
    /\ Len(result.findings) = 5
    /\ result.findings[1].kind = "overbooked"
    /\ result.findings[2].kind = "overbooked"

\* C22: every slot returned is at or after the current date and time.
C22_SlotsNotInThePast ==
    \A s \in Slots :
        \/ s.date > now.date
        \/ s.date = now.date /\ 60 * s.time.hour + s.time.minute >= now.time

\* the places in the list returned of the slots of the doctor, date and hour
SlotPlaces(id, d, h) ==
    {n \in DOMAIN result.slots :
        /\ result.slots[n].doctor_id = id
        /\ result.slots[n].date = d
        /\ result.slots[n].time.hour = h}

\* for every available doctor, weekday of the window and working hour with
\* fewer bookings than slots an hour, the slots offered are as many as are
\* left, at the minutes floor(60 / slots an hour) * 0, 1, 2, ...
OffersWhatIsLeft ==
    \A i \in DOMAIN doctors : \A d \in now.date..(now.date + 6) : \A h \in 9..20 :
        LET id == doctors[i].doctor_id
            perHour == Max2(1, 60 \div doctors[i].avg_consultation_time)
            b == BookedInHour(id, d, h)
        IN (doctors[i].is_available /\ d % 7 < 5 /\ b < perHour) =>
              /\ Cardinality(SlotPlaces(id, d, h)) = perHour - b
              /\ {result.slots[n].time.minute : n \in SlotPlaces(id, d, h)}
                     = {(60 \div perHour) * j : j \in 0..(perHour - b - 1)}
              /\ Cardinality({(60 \div perHour) * j : j \in 0..(perHour - b - 1)})
                     = perHour - b

\* C23: for every available doctor, weekday of the window and working hour
\* with b bookings, b below the slots an hour, exactly slots an hour minus b
\* slots are offered, at distinct minutes (60 / slots an hour) * index.
C23_OffersWhatIsLeft ==
    result.op = "slots" => OffersWhatIsLeft

\* C23 as amended: the same, when the appointment collection is not empty.
C23_OffersWhatIsLeftOfNonEmpty ==
    (result.op = "slots" /\ \E k \in DOMAIN appointments : appointments[k] > 0)
        => OffersWhatIsLeft

\* the doctor of seven slots an hour has one booking in hour 9 of day 0 and is
\* offered the six that are left
C23_Witness ==
    /\ result.op = "slots" /\ now.date = 0
    /\ BookedInHour(1, 0, 9) = 1
    /\ Cardinality(SlotPlaces(1, 0, 9)) = 6

\* C24: a slot's priority is 100 minus the consultation minutes in hours 17,
\* 18 and 19 and 50 in the other hours, minus 10 times the doctor's backlog
\* level at the current date and time, whatever the date of the slot; and
\* is_peak_hour is true exactly in hours 17, 18 and 19.
C24_SlotPriority ==
    \A s \in Slots :
        /\ s.is_peak_hour <=> s.time.hour \in {17, 18, 19}
        /\ \E i \in DOMAIN doctors :
              /\ doctors[i].doctor_id = s.doctor_id
              /\ s.priority =
                    (IF s.time.hour \in {17, 18, 19}
                     THEN 100 - doctors[i].avg_consultation_time ELSE 50)
                    - 10 * StepTable(Remaining(s.doctor_id))

\* a doctor with a backlog above 0, and rows of the day before the current
\* time, has slots in and out of the peak hours on a later date
C24_Witness ==
    /\ StepTable(Remaining(1)) > 0
    /\ \E s \in Slots : s.doctor_id = 1 /\ s.date > now.date /\ s.time.hour = 18
    /\ \E s \in Slots : s.doctor_id = 1 /\ s.date > now.date /\ s.time.hour = 10
    /\ \E s \in Slots : s.doctor_id = 2

\* slot a is met before slot b by the loops: doctor order, then date, then
\* hour, then minute
Before(a, b) ==
    LET pa == CHOOSE i \in DOMAIN doctors : doctors[i].doctor_id = a.doctor_id
        pb == CHOOSE i \in DOMAIN doctors : doctors[i].doctor_id = b.doctor_id
    IN \/ pa < pb
       \/ pa = pb /\ a.date < b.date
       \/ pa = pb /\ a.date = b.date /\ a.time.hour < b.time.hour
       \/ pa = pb /\ a.date = b.date /\ a.time.hour = b.time.hour
             /\ a.time.minute < b.time.minute

\* C25: the slots are returned by non-increasing priority, and slots of equal
\* priority in the order in which the loops met them.
C25_SortedAndStable ==
    result.op = "slots" =>
        \A n, m \in DOMAIN result.slots :
            n < m =>
                /\ result.slots[n].priority >= result.slots[m].priority
                /\ result.slots[n].priority = result.slots[m].priority
                      => Before(result.slots[n], result.slots[m])

\* the score of the row that has been scored, had its date been d days away
ScoreAt(d) == calculate_priority([row EXCEPT !.date_diff = d]).score

\* C26: with the early arrival and the wait time held fixed, of two date
\* differences on the same side of 0 the one nearer to 0 never has the lower
\* score, and the date difference 0 has the highest score.
C26_NearerNeverLower ==
    priority # NoPriority =>
        \A d \in (0 - MaxPast)..MaxDateDiff :
            /\ (0 <= d /\ d <= row.date_diff) => ScoreAt(d) >= priority.score
            /\ (row.date_diff <= d /\ d <= 0) => ScoreAt(d) >= priority.score
            /\ d = 0 => ScoreAt(d) >= priority.score

\* a row more than two weeks away has been scored
C26_Witness ==
    /\ priority # NoPriority
    /\ row.date_diff > 14 /\ priority.score = 30

\* C27: whatever the early arrival and the wait time, a row of today or of
\* the next 3 days is High, one 4 to 7 days away is Medium, and one more than
\* 7 days away or in the past is Low.
C27_CategoryByDateAlone ==
    priority # NoPriority =>
        priority.category =
            (IF row.date_diff \in 0..3 THEN "High"
             ELSE IF row.date_diff \in 4..7 THEN "Medium"
             ELSE "Low")

\* C28: the reset, which puts a new instance in the place of the predictor,
\* leaves it untrained, so that predict answers the default, whatever train
\* calls succeeded before.
C28_ResetIsUntrained ==
    last.op = "init" => (model = None /\ ~model_trained)

\* C29: with appointments and doctors both non-empty a list of findings is
\* returned and nothing is raised, also when an appointment of the current
\* date names a doctor who is not in the doctor collection.
C29_RecommendationsNeverRaise ==
    (/\ result.op = "recommendations"
     /\ doctors # <<>>
     /\ \E k \in DOMAIN appointments : appointments[k] > 0)
        => (result.outcome = "return" /\ Len(result.findings) >= 1)

\* C30: as the clock advances within a day over the same appointments, the
\* backlog level of a doctor never rises and the priority of each of the
\* doctor's candidate slots never falls.
C30_BacklogFallsOverTheDay ==
    [][(now'.date = now.date /\ now'.time > now.time /\ appointments' = appointments
          /\ doctors' = doctors)
        => \A before \in {optimal_slots(appointments, doctors, now)} :
           \A after \in {optimal_slots(appointments', doctors', now')} :
              /\ \A id \in {1, 2} :
                    calculate_doctor_backlog(id, now', appointments')
                       <= calculate_doctor_backlog(id, now, appointments)
              /\ Len(after) = Len(before)
              /\ \A n \in DOMAIN before :
                    /\ after[n].doctor_id = before[n].doctor_id
                    /\ after[n].date = before[n].date
                    /\ after[n].time = before[n].time
                    /\ after[n].priority >= before[n].priority]_vars

\* the backlog of doctor 1, who has 9 rows on day 0, is found to be 0 in the
\* evening of day 0
C30_Witness ==
    /\ result.op = "backlog" /\ result.doctor_id = 1 /\ result.level = 0
    /\ now.date = 0 /\ now.time > 1020
    /\ Today(1) = 9

====
